---- MODULE Spec2Model ----
(***************************************************************************)
(* Model of dns-in-one-weekend (src/src/main.rs): the DNS query encoder    *)
(* (DnsHeader::to_bytes, DomainName::encode_dns_name,                      *)
(* DnsQuestion::to_bytes, build_query) and the transport sequence of main. *)
(*                                                                         *)
(* Bytes are naturals in 0..255, u16 values naturals in 0..65535, a Rust   *)
(* String / Vec<u8> is the sequence of its bytes.                          *)
(***************************************************************************)
EXTENDS Naturals, Sequences, FiniteSets

VARIABLES
    domain_name,   \* input: the name string (its bytes)
    record_type,   \* input: u16 record type
    record_class,  \* input: u16 class of the DnsQuestion value
    header,        \* input: a DnsHeader value
    fn,            \* which function has been called ("none" before the call)
    ret,           \* the Vec<u8> the called function returned
    outcome,       \* how the call ended ("none" before the call)
    pc,            \* main: position in main
    query_bytes,   \* main: the local query_bytes
    udp_sock,      \* main: state of the socket
    events,        \* main: transport calls made so far, with their results
    stderr         \* main: what main reported

vars == <<domain_name, record_type, record_class, header, fn, ret, outcome,
          pc, query_bytes, udp_sock, events, stderr>>

inputVars == <<domain_name, record_type, record_class, header>>
mainVars == <<pc, query_bytes, udp_sock, events, stderr>>

----------------------------------------------------------------------------
(* Bounds of the model *)

\* longest name enumerated exhaustively over Alphabet
MaxNameLen == 3

\* longest datagram the server's answer is drawn from
MaxRespLen == 2

----------------------------------------------------------------------------
(* Program constants *)

CLASS_IN == 1
TYPE_A == 1
RECURSION_DESIRED == 256
RECV_BUF_LEN == 1024

\* the '.' delimiter of split('.')
Dot == 46

----------------------------------------------------------------------------
(* Primitive conversions of the Rust standard library, as the code uses them *)

\* u16::to_be_bytes: high byte first
U16ToBeBytesLittle(v) == <<v % 256, v \div 256>>
U16ToBeBytes(v) == <<v \div 256, v % 256>>

\* u16::from_be_bytes
U16FromBeBytes(b) == b[1] * 256 + b[2]

\* `len as u8`: the unchecked cast keeps the low 8 bits
AsU8(n) == n % 256

\* `u8 as char` followed by String::insert(0, ch): the char U+0000..U+00FF is
\* stored in the String as its UTF-8 encoding, one byte below 0x80 and two
\* bytes (0xC2/0xC3, then 0x80..0xBF) from 0x80 on.
InsertedChar(c) ==
    IF c < 128 THEN <<c>> ELSE <<192 + (c \div 64), 128 + (c % 64)>>

\* str::split('.'): the substrings between the delimiters, empty ones included
RECURSIVE Split(_)
Split(s) ==
    IF \A i \in 1..Len(s) : s[i] # Dot
    THEN <<s>>
    ELSE LET i == CHOOSE k \in 1..Len(s) :
                     s[k] = Dot /\ \A j \in 1..(k - 1) : s[j] # Dot
         IN <<SubSeq(s, 1, i - 1)>> \o Split(SubSeq(s, i + 1, Len(s)))

----------------------------------------------------------------------------
(* The encoders *)

\* the closure of flat_map in encode_dns_name
PrefixedLabel(substr) == InsertedChar(AsU8(Len(substr))) \o substr

\* Iterator::flat_map(..).collect(): the prefixed labels concatenated in order
RECURSIVE FlatMapLabels(_)
FlatMapLabels(substrs) ==
    IF substrs = <<>>
    THEN <<>>
    ELSE PrefixedLabel(Head(substrs)) \o FlatMapLabels(Tail(substrs))

IsNonEmpty(substr) == substr # <<>>
encode_dns_name_skipempty(name) ==
    FlatMapLabels(SelectSeq(Split(name), IsNonEmpty)) \o <<0>>
encode_dns_name(name) == FlatMapLabels(Split(name)) \o <<0>>

DnsHeader_to_bytes(h) ==
    U16ToBeBytes(h.id) \o U16ToBeBytes(h.flags)
        \o U16ToBeBytes(h.num_questions) \o U16ToBeBytes(h.num_answers)
        \o U16ToBeBytes(h.num_authorities) \o U16ToBeBytes(h.num_additionals)

DnsQuestion_to_bytes_classfirst(q) ==
    encode_dns_name(q.name) \o U16ToBeBytes(q.class) \o U16ToBeBytes(q.type)
DnsQuestion_to_bytes(q) ==
    encode_dns_name(q.name) \o U16ToBeBytes(q.type) \o U16ToBeBytes(q.class)

\* build_query with the value `id` drawn from the random generator
build_query_noflags(name, rtype, id) ==
    DnsHeader_to_bytes([id |-> id, flags |-> 0, num_questions |-> 1,
                        num_answers |-> 0, num_authorities |-> 0,
                        num_additionals |-> 0])
        \o DnsQuestion_to_bytes([name |-> name, class |-> CLASS_IN, type |-> rtype])
build_query(name, rtype, id) ==
    LET hdr == [id |-> id, flags |-> RECURSION_DESIRED, num_questions |-> 1,
                num_answers |-> 0, num_authorities |-> 0, num_additionals |-> 0]
        question == [name |-> name, class |-> CLASS_IN, type |-> rtype]
    IN DnsHeader_to_bytes(hdr) \o DnsQuestion_to_bytes(question)

----------------------------------------------------------------------------
(* Inputs of the encoder calls *)

\* "www.example.com" (main, tests::test_build_query) and "google.com"
\* (tests::qname_encoding)
WwwExampleCom == <<119, 119, 119, 46, 101, 120, 97, 109, 112, 108, 101, 46, 99, 111, 109>>
GoogleCom == <<103, 111, 111, 103, 108, 101, 46, 99, 111, 109>>

\* "a..b", a name with a repeated delimiter
ADotDotB == <<97, 46, 46, 98>>

\* 'a', 'b' and '.'
Alphabet == {97, 98, Dot}

\* every string over Alphabet of at most MaxNameLen bytes, the empty one included
SmallNames == UNION {[1..n -> Alphabet] : n \in 0..MaxNameLen}

Rep(c, n) == [i \in 1..n |-> c]

\* label lengths around the one-byte UTF-8 limit and the u8 limit
LongLabelLens == {63, 127, 128, 200, 255, 256, 257, 300}

\* one long label alone, and a long label between an empty and a short label
LongNames ==
    {Rep(97, n) : n \in LongLabelLens}
        \cup {<<Dot>> \o Rep(98, n) \o <<Dot, 97>> : n \in {127, 128, 255, 256}}

Names == SmallNames \cup LongNames \cup {WwwExampleCom, GoogleCom, ADotDotB}

\* sample u16 values: both bytes equal, both different, the extremes
RecordTypes == {TYPE_A, 28, 255, 43981}
RecordClasses == {CLASS_IN, 4660}
Ids == {0, 1, 255, 256, 4660, 33432, 43981, 65535}

U16List == <<0, 1, 255, 256, 4660, 33432, 43981, 65535>>

\* DnsHeader values: six consecutive samples of U16List (stride 1 or 3), so
\* that every field takes every sample and neighbouring fields differ
Headers ==
    {[id              |-> U16List[((k + 0 * d) % Len(U16List)) + 1],
      flags           |-> U16List[((k + 1 * d) % Len(U16List)) + 1],
      num_questions   |-> U16List[((k + 2 * d) % Len(U16List)) + 1],
      num_answers     |-> U16List[((k + 3 * d) % Len(U16List)) + 1],
      num_authorities |-> U16List[((k + 4 * d) % Len(U16List)) + 1],
      num_additionals |-> U16List[((k + 5 * d) % Len(U16List)) + 1]]
        : k \in 0..(Len(U16List) - 1), d \in {1, 3}}

\* the DnsQuestion value built from the inputs
question == [name |-> domain_name, class |-> record_class, type |-> record_type]

----------------------------------------------------------------------------
(* Specification of the encoder calls: the inputs are drawn at the start,  *)
(* then one of the functions is applied to them.                           *)

Init ==
    /\ domain_name \in Names
    /\ record_type \in RecordTypes
    /\ record_class \in RecordClasses
    /\ header \in Headers
    /\ fn = "none"
    /\ ret = <<>>
    /\ outcome = "none"
    /\ pc = "idle"
    /\ query_bytes = <<>>
    /\ udp_sock = "none"
    /\ events = <<>>
    /\ stderr = <<>>

\* every encoder returns a plain Vec<u8>: none of them returns a Result
CallEncodeDnsName ==
    /\ fn = "none"
    /\ fn' = "encode_dns_name"
    /\ ret' = encode_dns_name(domain_name)
    /\ outcome' = "Vec"
    /\ UNCHANGED <<inputVars, mainVars>>

CallHeaderToBytes ==
    /\ fn = "none"
    /\ fn' = "DnsHeader::to_bytes"
    /\ ret' = DnsHeader_to_bytes(header)
    /\ outcome' = "Vec"
    /\ UNCHANGED <<inputVars, mainVars>>

CallQuestionToBytes ==
    /\ fn = "none"
    /\ fn' = "DnsQuestion::to_bytes"
    /\ ret' = DnsQuestion_to_bytes(question)
    /\ outcome' = "Vec"
    /\ UNCHANGED <<inputVars, mainVars>>

CallBuildQuery ==
    /\ fn = "none"
    /\ \E id \in Ids :
        /\ fn' = "build_query"
        /\ ret' = build_query(domain_name, record_type, id)
        /\ outcome' = "Vec"
    /\ UNCHANGED <<inputVars, mainVars>>

Next ==
    \/ CallEncodeDnsName
    \/ CallHeaderToBytes
    \/ CallQuestionToBytes
    \/ CallBuildQuery

Spec == Init /\ [][Next]_vars

----------------------------------------------------------------------------
(* main: build the query, then bind, connect, send and recv on one socket *)

\* the datagrams recv may deliver (at most RECV_BUF_LEN bytes are stored)
RespBytes == {0, 171}
Responses == UNION {[1..n -> RespBytes] : n \in 0..MaxRespLen}

HexDigits == <<"0", "1", "2", "3", "4", "5", "6", "7",
               "8", "9", "A", "B", "C", "D", "E", "F">>

\* "{b:02X?}": two upper-case hex digits
HexOfByte(b) == <<HexDigits[(b \div 16) + 1], HexDigits[(b % 16) + 1]>>

\* for b in bytes { eprint!("{b:02X?}") }
RECURSIVE HexOfBytes(_)
HexOfBytes(bytes) ==
    IF bytes = <<>> THEN <<>> ELSE HexOfByte(Head(bytes)) \o HexOfBytes(Tail(bytes))

\* print_bytes_as_hex: "0x", the digits of every byte, a newline
print_bytes_as_hex(bytes) == <<"0x">> \o HexOfBytes(bytes) \o <<"\n">>

\* main holds no DnsHeader or DnsQuestion of its own: the inputs of the
\* encoder calls are the arguments main passes to build_query
MainInit ==
    /\ domain_name = WwwExampleCom
    /\ record_type = TYPE_A
    /\ record_class = CLASS_IN
    /\ header = [id |-> 0, flags |-> RECURSION_DESIRED, num_questions |-> 1,
                 num_answers |-> 0, num_authorities |-> 0, num_additionals |-> 0]
    /\ fn = "none"
    /\ ret = <<>>
    /\ outcome = "none"
    /\ pc = "start"
    /\ query_bytes = <<>>
    /\ udp_sock = "none"
    /\ events = <<>>
    /\ stderr = <<>>

\* let query_bytes = build_query("www.example.com", TYPE_A);
MainBuildQuery ==
    /\ pc = "start"
    /\ \E id \in Ids :
        /\ fn' = "build_query"
        /\ ret' = build_query(domain_name, record_type, id)
        /\ outcome' = "Vec"
        /\ header' = [header EXCEPT !.id = id]
        /\ query_bytes' = build_query(domain_name, record_type, id)
    /\ pc' = "bind"
    /\ UNCHANGED <<domain_name, record_type, record_class, udp_sock, events, stderr>>

\* UdpSocket::bind(..).unwrap_or_else(|e| panic!(..))
MainBind ==
    /\ pc = "bind"
    /\ \E ok \in BOOLEAN :
        /\ events' = Append(events, [op |-> "bind", ok |-> ok, bytes |-> <<>>])
        /\ IF ok
           THEN /\ udp_sock' = "bound"
                /\ pc' = "connect"
                /\ UNCHANGED stderr
           ELSE /\ udp_sock' = "none"
                /\ pc' = "panicked"
                /\ stderr' = <<"Couldn't bind to local address">>
    /\ UNCHANGED <<inputVars, fn, ret, outcome, query_bytes>>

\* udp_sock.connect(dns_server_addr).unwrap_or_else(|e| panic!(..))
MainConnect ==
    /\ pc = "connect"
    /\ \E ok \in BOOLEAN :
        /\ events' = Append(events, [op |-> "connect", ok |-> ok, bytes |-> <<>>])
        /\ IF ok
           THEN /\ udp_sock' = "connected"
                /\ pc' = "send"
                /\ UNCHANGED stderr
           ELSE /\ udp_sock' = "closed"
                /\ pc' = "panicked"
                /\ stderr' = <<"Couldn't connect to DNS Server">>
    /\ UNCHANGED <<inputVars, fn, ret, outcome, query_bytes>>

\* a send whose error is dropped instead of unwrapped
MainSendUnchecked ==
    /\ pc = "send"
    /\ \E ok \in BOOLEAN :
        /\ events' = Append(events, [op |-> "send", ok |-> ok, bytes |-> query_bytes])
        /\ pc' = "recv"
    /\ UNCHANGED <<inputVars, fn, ret, outcome, query_bytes, udp_sock, stderr>>

\* udp_sock.send(&query_bytes).expect("Couldn't send query")
MainSend ==
    /\ pc = "send"
    /\ \E ok \in BOOLEAN :
        /\ events' = Append(events, [op |-> "send", ok |-> ok, bytes |-> query_bytes])
        /\ IF ok
           THEN /\ pc' = "recv"
                /\ UNCHANGED <<udp_sock, stderr>>
           ELSE /\ udp_sock' = "closed"
                /\ pc' = "panicked"
                /\ stderr' = <<"Couldn't send query">>
    /\ UNCHANGED <<inputVars, fn, ret, outcome, query_bytes>>

\* match udp_sock.recv(&mut recv_buf) { Ok => hex dump, Err => report the id };
\* then main returns Ok(()) and the socket is dropped
MainRecv ==
    /\ pc = "recv"
    /\ \/ \E resp \in Responses :
            /\ Len(resp) <= RECV_BUF_LEN
            /\ events' = Append(events, [op |-> "recv", ok |-> TRUE, bytes |-> resp])
            /\ stderr' = print_bytes_as_hex(resp)
       \/ /\ events' = Append(events, [op |-> "recv", ok |-> FALSE, bytes |-> <<>>])
          /\ stderr' = <<"No response returned for query",
                         U16FromBeBytes(SubSeq(query_bytes, 1, 2))>>
    /\ udp_sock' = "closed"
    /\ pc' = "done"
    /\ UNCHANGED <<inputVars, fn, ret, outcome, query_bytes>>

MainNext ==
    \/ MainBuildQuery
    \/ MainBind
    \/ MainConnect
    \/ MainSend
    \/ MainRecv

MainSpec == MainInit /\ [][MainNext]_vars

----------------------------------------------------------------------------
(* Vocabulary of the properties *)

IsByte(b) == b \in 0..255

\* the labels of the input name
Labels == Split(domain_name)

RECURSIVE SumLen(_)
SumLen(ls) == IF ls = <<>> THEN 0 ELSE Len(Head(ls)) + SumLen(Tail(ls))

\* the wire form of one label: one length byte, then the label
WireLabel(l) == <<Len(l)>> \o l

RECURSIVE WireLabels(_)
WireLabels(ls) == IF ls = <<>> THEN <<>> ELSE WireLabel(Head(ls)) \o WireLabels(Tail(ls))

\* the wire form of a name: its labels in order, then the zero byte
WireName(ls) == WireLabels(ls) \o <<0>>

\* the reference decoder: read a length byte and that many bytes, stop at the
\* first zero length byte (or where the input ends)
RECURSIVE Decode(_)
Decode(bytes) ==
    IF bytes = <<>> \/ Head(bytes) = 0
    THEN <<>>
    ELSE LET n == Head(bytes)
             m == IF n + 1 <= Len(bytes) THEN n + 1 ELSE Len(bytes)
         IN <<SubSeq(bytes, 2, m)>> \o Decode(SubSeq(bytes, m + 1, Len(bytes)))

\* 0100 0001 0000 0000 0000 03 www 07 example 03 com 00 0001 0001
ExpectedQueryTail ==
    <<1, 0, 0, 1, 0, 0, 0, 0, 0, 0,
      3, 119, 119, 119, 7, 101, 120, 97, 109, 112, 108, 101, 3, 99, 111, 109, 0,
      0, 1, 0, 1>>

\* the bytes of a query after the random id
QueryTail(q) == SubSeq(q, 3, Len(q))

----------------------------------------------------------------------------
(* Properties of the encoder calls *)

\* C1: after its 2 id bytes, build_query(name, record_type) is flags 0x0100,
\* counts 1, 0, 0, 0, the encoded name, record_type big-endian and class
\* 0x0001, with nothing in between; for ("www.example.com", TYPE_A) it is the
\* hex sequence of tests::test_build_query.
C1_QueryLayout ==
    fn = "build_query" =>
        /\ QueryTail(ret) =
              <<1, 0, 0, 1, 0, 0, 0, 0, 0, 0>> \o encode_dns_name(domain_name)
                  \o <<record_type \div 256, record_type % 256, 0, 1>>
        /\ (domain_name = WwwExampleCom /\ record_type = TYPE_A)
              => QueryTail(ret) = ExpectedQueryTail

C1_Witness ==
    /\ fn = "build_query"
    /\ domain_name = WwwExampleCom
    /\ record_type = TYPE_A
    /\ Len(ret) = 33
    /\ QueryTail(ret) = ExpectedQueryTail

\* C2: encode_dns_name returns, for each label of the name in order, exactly
\* one byte holding the label's byte length and then the label's bytes, and
\* after all labels exactly one zero byte.
C2_OneLengthBytePerLabel ==
    fn = "encode_dns_name" =>
        /\ \A i \in 1..Len(ret) : IsByte(ret[i])
        /\ ret = WireName(Labels)

\* C3: for a name of labels of 1 to 255 bytes, decoding the output of
\* encode_dns_name (length byte, that many bytes, until a zero length byte)
\* gives back the labels of the name.  (A name with an empty label cannot
\* round-trip in this format at all: the empty label's length byte is read as
\* the terminator.  The property is stated for the names the format can hold.)
C3_RoundTrip ==
    (/\ fn = "encode_dns_name"
     /\ \A i \in 1..Len(Labels) : Len(Labels[i]) \in 1..255)
        => Decode(ret) = Labels

\* C4: for a name of labels of at most 255 bytes, build_query returns
\* 12 + (sum of label lengths + number of labels + 1) + 4 bytes.
C4_QueryLength ==
    (/\ fn = "build_query"
     /\ \A i \in 1..Len(Labels) : Len(Labels[i]) <= 255)
        => Len(ret) = 12 + (SumLen(Labels) + Len(Labels) + 1) + 4

\* C5: a name of one label of exactly 255 bytes is encoded as the length byte
\* 0xFF, the 255 label bytes and the zero byte, 257 bytes in all.
C5_Label255 ==
    (/\ fn = "encode_dns_name"
     /\ Len(Labels) = 1
     /\ Len(Labels[1]) = 255)
        => /\ Len(ret) = 257
           /\ ret = <<255>> \o domain_name \o <<0>>

\* C6: encoding a name with a label of more than 255 bytes ends in a
\* LabelTooLong error returned to the caller, and no length byte that is the
\* label's length modulo 256 is emitted.
C6_LabelTooLong ==
    (/\ fn = "encode_dns_name"
     /\ \E i \in 1..Len(Labels) : Len(Labels[i]) > 255)
        => /\ outcome = "LabelTooLong"
           /\ Len(Labels) = 1 => (ret = <<>> \/ ret[1] # Len(Labels[1]) % 256)

\* C7: DnsHeader::to_bytes returns exactly 12 bytes, and reading them back as
\* six big-endian u16 values gives id, flags, num_questions, num_answers,
\* num_authorities, num_additionals in that order.
C7_HeaderBytes ==
    fn = "DnsHeader::to_bytes" =>
        /\ Len(ret) = 12
        /\ \A i \in 1..12 : IsByte(ret[i])
        /\ ret[1] * 256 + ret[2] = header.id
        /\ ret[3] * 256 + ret[4] = header.flags
        /\ ret[5] * 256 + ret[6] = header.num_questions
        /\ ret[7] * 256 + ret[8] = header.num_answers
        /\ ret[9] * 256 + ret[10] = header.num_authorities
        /\ ret[11] * 256 + ret[12] = header.num_additionals

C7_Witness ==
    /\ fn = "DnsHeader::to_bytes"
    /\ header.id = 33432
    /\ header.flags = 43981
    /\ SubSeq(ret, 1, 4) = <<130, 152, 171, 205>>

\* C8: DnsQuestion::to_bytes returns the encoded name, then the record type
\* and then the record class, each as 2 bytes big-endian; its length is the
\* length of the encoded name plus 4.
C8_QuestionBytes ==
    fn = "DnsQuestion::to_bytes" =>
        LET n == Len(ret)
            k == Len(encode_dns_name(domain_name))
        IN /\ n = k + 4
           /\ SubSeq(ret, 1, k) = encode_dns_name(domain_name)
           /\ \A i \in (k + 1)..n : IsByte(ret[i])
           /\ ret[k + 1] * 256 + ret[k + 2] = record_type
           /\ ret[k + 3] * 256 + ret[k + 4] = record_class

C8_Witness ==
    /\ fn = "DnsQuestion::to_bytes"
    /\ domain_name = GoogleCom
    /\ record_type = 28
    /\ record_class = 4660
    /\ ret = <<6, 103, 111, 111, 103, 108, 101, 3, 99, 111, 109, 0, 0, 28, 18, 52>>

\* where the encoding of label i starts when every earlier label is shorter
\* than 128 bytes
StartOf(i) == 1 + SumLen(SubSeq(Labels, 1, i - 1)) + (i - 1)

\* C9: a name with an empty label is encoded without validation: the call
\* returns bytes, each empty label is the single byte 0x00 at its position
\* (followed at once by the next label or the terminator), so the output has
\* a zero byte before the final one; "a..b" gives 01 'a' 00 01 'b' 00 and the
\* empty string gives 00 00.
C9_EmptyLabel ==
    (/\ fn = "encode_dns_name"
     /\ \E i \in 1..Len(Labels) : Labels[i] = <<>>)
        => /\ outcome = "Vec"
           /\ \E k \in 1..(Len(ret) - 1) : ret[k] = 0
           /\ ret[Len(ret)] = 0
           /\ (\A i \in 1..Len(Labels) : Len(Labels[i]) < 128)
                 => /\ Len(ret) = SumLen(Labels) + Len(Labels) + 1
                    /\ \A i \in 1..Len(Labels) :
                          /\ ret[StartOf(i)] = Len(Labels[i])
                          /\ SubSeq(ret, StartOf(i) + 1, StartOf(i) + Len(Labels[i]))
                                = Labels[i]
           /\ domain_name = ADotDotB => ret = <<1, 97, 0, 1, 98, 0>>
           /\ domain_name = <<>> => ret = <<0, 0>>

C9_Witness ==
    /\ fn = "encode_dns_name"
    /\ domain_name = ADotDotB
    /\ Labels = <<(<<97>>), <<>>, (<<98>>)>>
    /\ ret = <<1, 97, 0, 1, 98, 0>>

----------------------------------------------------------------------------
(* Property of main *)

TransportOrder == <<"bind", "connect", "send", "recv">>

\* C10: in every run of main the transport calls are a prefix of bind,
\* connect, send, recv, each made at most once; only the last call made can
\* have failed; a failed bind, connect or send leaves main panicked; the bytes
\* sent are query_bytes; after recv main is done, and after a failed recv it
\* has reported the id held in the first 2 bytes of the query it sent.
C10_TransportOrder ==
    LET n == Len(events)
    IN /\ n <= 4
       /\ \A i \in 1..n : events[i].op = TransportOrder[i]
       /\ \A i \in 1..(n - 1) : events[i].ok
       /\ pc = "panicked" <=> (n \in 1..3 /\ ~events[n].ok)
       /\ n >= 3 => events[3].bytes = query_bytes
       /\ n = 4 <=> pc = "done"
       /\ (n = 4 /\ ~events[4].ok)
             => stderr = <<"No response returned for query",
                           events[3].bytes[1] * 256 + events[3].bytes[2]>>

C10_Witness ==
    /\ pc = "done"
    /\ Len(events) = 4
    /\ events[3].ok
    /\ ~events[4].ok
    /\ SubSeq(query_bytes, 1, 2) = <<130, 152>>
    /\ stderr = <<"No response returned for query", 33432>>

====
